---- MODULE Spec2Model ----
(***************************************************************************)
(* Model of the process/thread manager of src/src/process.rs               *)
(* (struct ProcessManager and its operations).  The tables are the Vecs of *)
(* the source, kept as sequences in insertion order; lookups are           *)
(* `iter().find(..)`, i.e. the first matching entry.  The capability       *)
(* system and the capability channel of src/src/capability.rs are modelled *)
(* next to it; the two managers share no state.  The capability registry   *)
(* (issue, revoke, check, delegate) has no code in the sources and follows *)
(* the design document.                                                    *)
(***************************************************************************)
EXTENDS Integers, Sequences, FiniteSets, TLC

\* ---------------------------------------------------------------- bounds
MaxProcs   == 2      \* create_process is disabled once this many processes exist
MaxThreads == 3      \* create_* is disabled once this many threads exist
MaxQueue   == 5      \* pushes onto the ready queue are disabled at this length
MaxLog     == 4      \* length at which the scheduling log restarts
MaxCaps    == 2      \* next_capability_id is disabled after this many ids
MaxChannels == 2     \* create_channel is disabled once this many channels exist
SysThreads == 3      \* thread-table size up to which SpecSys follows the manager
SysQueue   == 3      \* ready-queue length up to which SpecSys follows the manager
ChanThreads == 2     \* thread-table size up to which SpecChan follows the manager
ChanQueue  == 2      \* ready-queue length up to which SpecChan follows the manager
LiveThreads == 2     \* thread-table size up to which SpecLive follows the manager
LiveQueue  == 3      \* ready-queue length up to which SpecLive follows the manager
MaxRegistry == 2     \* issue and delegate are disabled once this many capabilities exist
MaxClock   == 3      \* the clock stops here

\* ------------------------------------------------------ program constants
\* The id counters are AtomicU32; fetch_add(1) wraps at 2^32, which the guards
\* on MaxProcs and MaxThreads keep out of reach, so the increment is exact.
FirstId == 1         \* next_pid / next_tid start at 1
FirstTime == 1       \* the clock is a Unix timestamp, read from 1 on

None == 0            \* Option::None for Option<ThreadId>; ids start at 1

\* -------------------------------------------------------------- variables
VARIABLES
    processes,       \* Vec<ProcessControlBlock>: seq of [pid, state, threads]
    threads,         \* Vec<ThreadControlBlock>:  seq of [tid, pid, state]
    next_pid,        \* AtomicU32
    next_tid,        \* AtomicU32
    ready_queue,     \* VecDeque<ThreadId>
    current_thread,  \* Option<ThreadId>
    last,            \* observation: the last call, its argument, result and
                     \*   the schedule_next selections made during it
    sched_log,       \* observation: selections of the scheduling calls made
                     \*   since the last create_* / terminate_* call
    log_idle,        \* observation: current_thread was None where sched_log starts
    next_capability_id,  \* CapabilitySystem::next_capability_id: u64
    channels,        \* CapabilitySystem::channels: Vec<CapabilityChannelService>
    cap_issued,      \* observation: the ids next_capability_id() returned, in order
    reply,           \* observation: the last channel request and its answer
    pending,         \* the request futures that were created and not yet polled,
                     \*   in call order: seq of [ch, req, issuer]
    registry,        \* CapabilityRegistry: the capabilities issued, seq of
                     \*   [id, permissions, resource, expires_at, revoked, parent]
    now,             \* the clock that expires_at is compared with
    lapsed_seen      \* observation: the ids of the capabilities that were, at some
                     \*   moment so far, revoked or past their expires_at

regvars == <<registry, now, lapsed_seen>>
capvars == <<next_capability_id, channels, cap_issued, reply, pending,
             registry, now, lapsed_seen>>
vars == <<processes, threads, next_pid, next_tid, ready_queue, current_thread,
          last, sched_log, log_idle, next_capability_id, channels, cap_issued, reply,
          pending, registry, now, lapsed_seen>>

\* ---------------------------------------------------------------- helpers

\* position of the first thread control block with this tid, 0 if there is none
find_thread(thr, tid) ==
    IF \E i \in 1..Len(thr) : thr[i].tid = tid
    THEN CHOOSE i \in 1..Len(thr) :
            /\ thr[i].tid = tid
            /\ \A j \in 1..(i-1) : thr[j].tid # tid
    ELSE 0

\* position of the first process control block with this pid, 0 if there is none
find_process(procs, pid) ==
    IF \E i \in 1..Len(procs) : procs[i].pid = pid
    THEN CHOOSE i \in 1..Len(procs) :
            /\ procs[i].pid = pid
            /\ \A j \in 1..(i-1) : procs[j].pid # pid
    ELSE 0

\* recorded state of thread tid, "Absent" when the table has no such thread
thread_state(thr, tid) ==
    IF \E i \in 1..Len(thr) : thr[i].tid = tid
    THEN thr[find_thread(thr, tid)].state
    ELSE "Absent"

\* ready_queue.retain(|&t| t != tid)
retain_not(q, tid) ==
    LET Keep(t) == t # tid IN SelectSeq(q, Keep)

\* the manager as one value, with the selections observed during a call
PM == [processes      |-> processes,
       threads        |-> threads,
       next_pid       |-> next_pid,
       next_tid       |-> next_tid,
       ready_queue    |-> ready_queue,
       current_thread |-> current_thread,
       trace          |-> <<>>]

\* one observed return of schedule_next: the id and what the thread table
\* recorded for that id at the moment of selection
Selection(pm, ret) ==
    [ret |-> ret, state |-> thread_state(pm.threads, ret)]

\* ------------------------------------------------------------- operations

\* schedule_next with the id taken from the id counter instead of the popped entry
schedule_next_counter_id(pm) ==
    IF pm.ready_queue = <<>>
    THEN [pm |-> [pm EXCEPT !.trace = Append(@, Selection(pm, None))], ret |-> None]
    ELSE LET popped == Head(pm.ready_queue)
             rest   == Tail(pm.ready_queue)
         IN  IF thread_state(pm.threads, popped) = "Ready"
             THEN [pm |-> [pm EXCEPT !.current_thread = pm.next_tid,
                                     !.ready_queue = Append(rest, popped),
                                     !.trace = Append(@, Selection(pm, pm.next_tid))],
                   ret |-> pm.next_tid]
             ELSE [pm |-> [pm EXCEPT !.ready_queue = rest,
                                     !.trace = Append(@, Selection(pm, None))],
                   ret |-> None]

\* schedule_next that re-inserts the selected thread at the front of the queue
schedule_next_push_front(pm) ==
    IF pm.ready_queue = <<>>
    THEN [pm |-> [pm EXCEPT !.trace = Append(@, Selection(pm, None))], ret |-> None]
    ELSE LET popped == Head(pm.ready_queue)
             rest   == Tail(pm.ready_queue)
         IN  IF thread_state(pm.threads, popped) = "Ready"
             THEN [pm |-> [pm EXCEPT !.current_thread = popped,
                                     !.ready_queue = <<popped>> \o rest,
                                     !.trace = Append(@, Selection(pm, popped))],
                   ret |-> popped]
             ELSE [pm |-> [pm EXCEPT !.ready_queue = rest,
                                     !.trace = Append(@, Selection(pm, None))],
                   ret |-> None]

\* ProcessManager::schedule_next
schedule_next(pm) ==
    IF pm.ready_queue = <<>>
    THEN [pm |-> [pm EXCEPT !.trace = Append(@, Selection(pm, None))], ret |-> None]
    ELSE LET popped == Head(pm.ready_queue)            \* pop_front
             rest   == Tail(pm.ready_queue)
         IN  IF thread_state(pm.threads, popped) = "Ready"
             THEN [pm |-> [pm EXCEPT !.current_thread = popped,
                                     !.ready_queue = Append(rest, popped),
                                     !.trace = Append(@, Selection(pm, popped))],
                   ret |-> popped]
             ELSE \* the popped entry is dropped, current_thread is kept
                  [pm |-> [pm EXCEPT !.ready_queue = rest,
                                     !.trace = Append(@, Selection(pm, None))],
                   ret |-> None]

\* ProcessManager::yield_thread
yield_thread(pm) ==
    LET pushed == IF pm.current_thread # None
                  THEN [pm EXCEPT !.ready_queue = Append(@, pm.current_thread)]
                  ELSE pm
    IN  schedule_next(pushed)

\* create_thread that takes the thread id before it verifies the process
create_thread_id_first(pm, pid) ==
    LET tid == pm.next_tid
        bumped == [pm EXCEPT !.next_tid = @ + 1]
    IN  IF find_process(pm.processes, pid) = 0
        THEN [pm |-> bumped, res |-> "ProcessNotFound", tid |-> None]
        ELSE [pm |-> [bumped EXCEPT
                        !.threads = Append(@, [tid |-> tid, pid |-> pid, state |-> "Ready"]),
                        !.ready_queue = Append(@, tid)],
              res |-> "Ok", tid |-> tid]

\* ProcessManager::create_thread (params only fill the saved pointers and the
\* priority of the new control block, which no operation reads)
create_thread(pm, pid) ==
    IF find_process(pm.processes, pid) = 0
    THEN [pm |-> pm, res |-> "ProcessNotFound", tid |-> None]
    ELSE LET tid == pm.next_tid                         \* fetch_add(1)
         IN  [pm |-> [pm EXCEPT
                        !.next_tid = @ + 1,
                        !.threads = Append(@, [tid |-> tid, pid |-> pid, state |-> "Ready"]),
                        !.ready_queue = Append(@, tid)],
              res |-> "Ok", tid |-> tid]

\* create_process that leaves the new process in state Created
create_process_stays_created(pm) ==
    LET pid == pm.next_pid
        pushed == [pm EXCEPT
                     !.next_pid = @ + 1,
                     !.processes = Append(@, [pid |-> pid, state |-> "Created",
                                              capabilities |-> <<>>,
                                              threads |-> <<>>])]
        ct == create_thread(pushed, pid)
    IN  IF ct.res # "Ok"
        THEN [pm |-> ct.pm, res |-> ct.res, pid |-> None]
        ELSE LET i == find_process(ct.pm.processes, pid)
             IN  [pm |-> IF i # 0
                         THEN [ct.pm EXCEPT !.processes[i].threads = Append(@, ct.tid)]
                         ELSE ct.pm,
                  res |-> "Ok", pid |-> pid]

\* ProcessManager::create_process
create_process(pm) ==
    LET pid == pm.next_pid                              \* fetch_add(1)
        pushed == [pm EXCEPT
                     !.next_pid = @ + 1,
                     !.processes = Append(@, [pid |-> pid, state |-> "Created",
                                              capabilities |-> <<>>,
                                              threads |-> <<>>])]
        ct == create_thread(pushed, pid)
    IN  IF ct.res # "Ok"
        THEN [pm |-> ct.pm, res |-> ct.res, pid |-> None]   \* the `?`
        ELSE LET i == find_process(ct.pm.processes, pid)
             IN  [pm |-> IF i # 0
                         THEN [ct.pm EXCEPT
                                 !.processes[i].threads = Append(@, ct.tid),
                                 !.processes[i].state = "Ready"]
                         ELSE ct.pm,
                  res |-> "Ok", pid |-> pid]

\* terminate_thread that leaves the current-thread pointer alone
terminate_thread_keep_current(pm, tid) ==
    LET i == find_thread(pm.threads, tid)
    IN  IF i = 0
        THEN [pm |-> pm, res |-> "ThreadNotFound"]
        ELSE [pm |-> [pm EXCEPT !.threads[i].state = "Terminated",
                                !.ready_queue = retain_not(@, tid)],
              res |-> "Ok"]

\* terminate_thread that does not remove the thread from the ready queue
terminate_thread_no_retain(pm, tid) ==
    LET i == find_thread(pm.threads, tid)
    IN  IF i = 0
        THEN [pm |-> pm, res |-> "ThreadNotFound"]
        ELSE LET marked == [pm EXCEPT !.threads[i].state = "Terminated"]
             IN  IF marked.current_thread = tid
                 THEN [pm |-> schedule_next([marked EXCEPT !.current_thread = None]).pm,
                       res |-> "Ok"]
                 ELSE [pm |-> marked, res |-> "Ok"]

\* terminate_thread that clears the current-thread pointer and schedules nothing
terminate_thread_no_schedule(pm, tid) ==
    LET i == find_thread(pm.threads, tid)
    IN  IF i = 0
        THEN [pm |-> pm, res |-> "ThreadNotFound"]
        ELSE LET removed == [pm EXCEPT !.threads[i].state = "Terminated",
                                       !.ready_queue = retain_not(@, tid)]
             IN  IF removed.current_thread = tid
                 THEN [pm |-> [removed EXCEPT !.current_thread = None], res |-> "Ok"]
                 ELSE [pm |-> removed, res |-> "Ok"]

\* terminate_thread that reschedules whether or not tid was the current thread
terminate_thread_always_reschedule(pm, tid) ==
    LET i == find_thread(pm.threads, tid)
    IN  IF i = 0
        THEN [pm |-> pm, res |-> "ThreadNotFound"]
        ELSE LET removed == [pm EXCEPT !.threads[i].state = "Terminated",
                                       !.ready_queue = retain_not(@, tid)]
             IN  [pm |-> schedule_next([removed EXCEPT !.current_thread = None]).pm,
                  res |-> "Ok"]

\* ProcessManager::terminate_thread
terminate_thread(pm, tid) ==
    LET i == find_thread(pm.threads, tid)
    IN  IF i = 0
        THEN [pm |-> pm, res |-> "ThreadNotFound"]
        ELSE LET removed == [pm EXCEPT !.threads[i].state = "Terminated",
                                       !.ready_queue = retain_not(@, tid)]
             IN  IF removed.current_thread = tid
                 THEN [pm |-> schedule_next([removed EXCEPT !.current_thread = None]).pm,
                       res |-> "Ok"]
                 ELSE [pm |-> removed, res |-> "Ok"]

\* threads_of that collects every thread, whatever its owner
threads_of_any(thr, pid) ==
    [k \in 1..Len(thr) |-> thr[k].tid]

\* the ids of the threads owned by pid, in table order
threads_of(thr, pid) ==
    LET Owned(t) == t.pid = pid
        owned == SelectSeq(thr, Owned)
    IN  [k \in 1..Len(owned) |-> owned[k].tid]

\* the loop of terminate_process: terminate_thread(tid)? for each collected id
RECURSIVE terminate_each(_, _)
terminate_each(pm, ids) ==
    IF ids = <<>>
    THEN [pm |-> pm, res |-> "Ok"]
    ELSE LET r == terminate_thread(pm, Head(ids))
         IN  IF r.res # "Ok" THEN r ELSE terminate_each(r.pm, Tail(ids))

\* ProcessManager::terminate_process
terminate_process(pm, pid) ==
    LET r == terminate_each(pm, threads_of(pm.threads, pid))
    IN  IF r.res # "Ok"
        THEN r
        ELSE LET i == find_process(r.pm.processes, pid)
             IN  IF i # 0
                 THEN [pm |-> [r.pm EXCEPT !.processes[i].state = "Terminated"],
                       res |-> "Ok"]
                 ELSE [pm |-> r.pm, res |-> "ProcessNotFound"]

\* ------------------------------------------------- capability operations

\* next_capability_id that hands the id out and leaves the counter as it was
next_capability_id_no_increment(counter) ==
    [id |-> counter, counter |-> counter]

\* CapabilitySystem::next_capability_id: the id handed out and the counter
\* after `+= 1` (u64; MaxCaps keeps the counter far from overflow)
next_capability_id_op(counter) ==
    [id |-> counter, counter |-> counter + 1]

\* CapabilityChannel::new: the service half pushed by create_channel; both
\* halves are field-less structs
new_service == [kind |-> "CapabilityChannelService"]

\* CapabilitySystem::create_channel
create_channel(chs) == Append(chs, new_service)

\* the requests tried on a channel: [kind, op, size]; size is buffer_size of
\* Receive and size of Allocate, 0 for the other operations
Requests ==
    { [kind |-> "Network", op |-> "Receive", size |-> n] : n \in 0..1 }
    \cup { [kind |-> "Network", op |-> "Send", size |-> 0],
           [kind |-> "Network", op |-> "Listen", size |-> 0],
           [kind |-> "FileSystem", op |-> "Open", size |-> 0],
           [kind |-> "FileSystem", op |-> "Delete", size |-> 0],
           [kind |-> "Process", op |-> "Kill", size |-> 0] }
    \cup { [kind |-> "Memory", op |-> "Allocate", size |-> n] : n \in 0..1 }

\* a request that borrows the client half shared, so that a second request may
\* be made on a channel whose earlier request is still alive
may_request_shared(pend, ch) == TRUE

\* `request(&mut self, ..)`: the future it returns holds the exclusive borrow
\* of the client half until it is polled to completion, so no second request
\* can be made on channel ch while one of its futures is alive
may_request(pend, ch) ==
    \A i \in 1..Len(pend) : pend[i].ch # ch

\* the sequence without its k-th entry
drop_at(q, k) ==
    SubSeq(q, 1, k - 1) \o SubSeq(q, k + 1, Len(q))

\* CapabilityChannel::request: Err(SystemError("Not implemented")) for every request
request(req) ==
    [via |-> "request", req |-> req, res |-> "Err", error |-> "SystemError"]

\* handle_filesystem_request / handle_network_request / handle_memory_request /
\* handle_process_request: each answers Error(SystemError("Not implemented"))
handle_filesystem_request(req) == "SystemError"
handle_network_request(req) == "SystemError"
handle_memory_request(req) == "SystemError"
handle_process_request(req) == "SystemError"

\* CapabilityChannelService::handle_request
handle_request(req) ==
    [via |-> "handle_request", req |-> req, res |-> "Error",
     error |-> CASE req.kind = "FileSystem" -> handle_filesystem_request(req)
                 [] req.kind = "Network"    -> handle_network_request(req)
                 [] req.kind = "Memory"     -> handle_memory_request(req)
                 [] req.kind = "Process"    -> handle_process_request(req)]

\* --------------------------------------------------- capability registry
\* The registry operations issue / revoke / check / delegate have no code in
\* capability.rs; they follow section 4.1 of the design (CapabilityRegistry).

\* the permissions tried (enum Permission)
Permissions == {"Read", "Write", "Delegate"}

\* the resources tried (ResourceHandle::File): the paths /a, /a/b and /b, each
\* the sequence of its components
Resources == { <<"a">>, <<"a", "b">>, <<"b">> }

\* sub lies within res: the file path sub is res or lies below it
contained(sub, res) ==
    /\ Len(res) <= Len(sub)
    /\ SubSeq(sub, 1, Len(res)) = res

\* position of the capability with this id in the registry, 0 if there is none
find_capability(reg, id) ==
    IF \E i \in 1..Len(reg) : reg[i].id = id
    THEN CHOOSE i \in 1..Len(reg) : reg[i].id = id
    ELSE 0

\* expires_at of a capability issued at time t with this ttl (None: no expiry)
expiry_of(t, ttl) == IF ttl = None THEN None ELSE t + ttl

\* the earlier of two optional expiry times
earlier(a, b) ==
    IF a = None THEN b ELSE IF b = None THEN a ELSE IF a < b THEN a ELSE b

\* expiry time a is not later than expiry time b
not_later(a, b) == b = None \/ (a # None /\ a <= b)

\* issue(resource, permissions, ttl): allocates the next id and stores the record
issue(reg, counter, t, resource, permissions, ttl) ==
    LET n == next_capability_id_op(counter)
    IN  [reg |-> Append(reg, [id |-> n.id, permissions |-> permissions,
                              resource |-> resource,
                              expires_at |-> expiry_of(t, ttl),
                              revoked |-> FALSE, parent |-> None]),
         counter |-> n.counter, id |-> n.id, res |-> "Ok"]

\* revoke(id): marks the capability dead; revoking a dead or unknown one is a no-op
revoke(reg, id) ==
    LET i == find_capability(reg, id)
    IN  IF i = 0 THEN reg ELSE [reg EXCEPT ![i].revoked = TRUE]

\* check that never looks at expires_at
check_ignores_expiry(reg, t, id, resource, permission) ==
    LET i == find_capability(reg, id)
    IN  /\ i # 0
        /\ ~reg[i].revoked
        /\ contained(resource, reg[i].resource)
        /\ permission \in reg[i].permissions

\* check(capability, resource, permission): the capability is live, the
\* resource lies within its resource and the permission is one it carries
check(reg, t, id, resource, permission) ==
    LET i == find_capability(reg, id)
    IN  /\ i # 0
        /\ ~reg[i].revoked
        /\ reg[i].expires_at = None \/ t <= reg[i].expires_at
        /\ contained(resource, reg[i].resource)
        /\ permission \in reg[i].permissions

\* delegate whose new capability expires at the requested time, whatever the parent's
delegate_requested_ttl(reg, counter, t, parent, permissions, sub_resource, ttl) ==
    LET i == find_capability(reg, parent)
    IN  IF /\ i # 0
           /\ check(reg, t, parent, reg[i].resource, "Delegate")
           /\ permissions \subseteq reg[i].permissions
           /\ contained(sub_resource, reg[i].resource)
        THEN LET n == next_capability_id_op(counter)
             IN  [reg |-> Append(reg, [id |-> n.id, permissions |-> permissions,
                                       resource |-> sub_resource,
                                       expires_at |-> expiry_of(t, ttl),
                                       revoked |-> FALSE, parent |-> parent]),
                  counter |-> n.counter, id |-> n.id, res |-> "Ok"]
        ELSE [reg |-> reg, counter |-> counter, id |-> None, res |-> "PermissionDenied"]

\* delegate(parent, subset_permissions, sub_resource) with the requested ttl
delegate(reg, counter, t, parent, permissions, sub_resource, ttl) ==
    LET i == find_capability(reg, parent)
    IN  IF /\ i # 0
           /\ check(reg, t, parent, reg[i].resource, "Delegate")
           /\ permissions \subseteq reg[i].permissions
           /\ contained(sub_resource, reg[i].resource)
        THEN LET n == next_capability_id_op(counter)
             IN  [reg |-> Append(reg, [id |-> n.id, permissions |-> permissions,
                                       resource |-> sub_resource,
                                       expires_at |-> earlier(reg[i].expires_at,
                                                              expiry_of(t, ttl)),
                                       revoked |-> FALSE, parent |-> parent]),
                  counter |-> n.counter, id |-> n.id, res |-> "Ok"]
        ELSE [reg |-> reg, counter |-> counter, id |-> None, res |-> "PermissionDenied"]

\* ------------------------------------------------------------ transitions

Pids == 1..(MaxProcs + 1)       \* arguments tried, one id beyond those issued
Tids == 1..(MaxThreads + 1)

Install(pm) ==
    /\ processes' = pm.processes
    /\ threads' = pm.threads
    /\ next_pid' = pm.next_pid
    /\ next_tid' = pm.next_tid
    /\ ready_queue' = pm.ready_queue
    /\ current_thread' = pm.current_thread

Observe(op, arg, res, pm) ==
    last' = [op |-> op, arg |-> arg, res |-> res, trace |-> pm.trace]

LogReset ==
    /\ sched_log' = <<>>
    /\ log_idle' = (current_thread' = None)

LogSelection(op, ret) ==
    IF Len(sched_log) < MaxLog
    THEN /\ sched_log' = Append(sched_log, [op |-> op, ret |-> ret])
         /\ log_idle' = IF sched_log = <<>> THEN (current_thread = None) ELSE log_idle
    ELSE /\ sched_log' = <<[op |-> op, ret |-> ret]>>
         /\ log_idle' = (current_thread = None)

Init ==
    /\ processes = <<>>
    /\ threads = <<>>
    /\ next_pid = FirstId
    /\ next_tid = FirstId
    /\ ready_queue = <<>>
    /\ current_thread = None
    /\ last = [op |-> "new", arg |-> 0, res |-> "Ok", trace |-> <<>>]
    /\ sched_log = <<>>
    /\ log_idle = TRUE
    /\ next_capability_id = FirstId
    /\ channels = <<>>
    /\ cap_issued = <<>>
    /\ reply = [via |-> "none", req |-> [kind |-> "none", op |-> "none", size |-> 0],
                res |-> "none", error |-> "none"]
    /\ pending = <<>>
    /\ registry = <<>>
    /\ now = FirstTime
    /\ lapsed_seen = {}

CreateProcess ==
    /\ Len(processes) < MaxProcs
    /\ Len(threads) < MaxThreads
    /\ Len(ready_queue) < MaxQueue
    /\ \E r \in {create_process(PM)} :
           /\ Install(r.pm)
           /\ Observe("create_process", r.pid, r.res, r.pm)
    /\ LogReset
    /\ UNCHANGED capvars

CreateThread ==
    \E pid \in Pids :
        /\ Len(threads) < MaxThreads
        /\ Len(ready_queue) < MaxQueue
        /\ \E r \in {create_thread(PM, pid)} :
               /\ Install(r.pm)
               /\ Observe("create_thread", pid, r.res, r.pm)
        /\ LogReset
        /\ UNCHANGED capvars

TerminateThread ==
    \E tid \in Tids :
        /\ \E r \in {terminate_thread(PM, tid)} :
               /\ Install(r.pm)
               /\ Observe("terminate_thread", tid, r.res, r.pm)
        /\ LogReset
        /\ UNCHANGED capvars

TerminateProcess ==
    \E pid \in Pids :
        /\ \E r \in {terminate_process(PM, pid)} :
               /\ Install(r.pm)
               /\ Observe("terminate_process", pid, r.res, r.pm)
        /\ LogReset
        /\ UNCHANGED capvars

ScheduleNext ==
    /\ \E r \in {schedule_next(PM)} :
           /\ Install(r.pm)
           /\ Observe("schedule_next", 0, "Ok", r.pm)
           /\ LogSelection("schedule_next", r.ret)
    /\ UNCHANGED capvars

YieldThread ==
    /\ current_thread # None => Len(ready_queue) < MaxQueue
    /\ \E r \in {yield_thread(PM)} :
           /\ Install(r.pm)
           /\ Observe("yield_thread", 0, "Ok", r.pm)
           /\ LogSelection("yield_thread", r.ret)
    /\ UNCHANGED capvars

Next ==
    \/ CreateProcess
    \/ CreateThread
    \/ TerminateThread
    \/ TerminateProcess
    \/ ScheduleNext
    \/ YieldThread

Spec == Init /\ [][Next]_vars

\* ---------------------------------------------- capability transitions

pmobs == <<processes, threads, next_pid, next_tid, ready_queue, current_thread,
           sched_log, log_idle>>

ObserveCap(op) ==
    last' = [op |-> op, arg |-> 0, res |-> "Ok", trace |-> <<>>]

NextCapabilityId ==
    /\ Len(cap_issued) < MaxCaps
    /\ \E r \in {next_capability_id_op(next_capability_id)} :
           /\ next_capability_id' = r.counter
           /\ cap_issued' = Append(cap_issued, r.id)
    /\ ObserveCap("next_capability_id")
    /\ UNCHANGED <<channels, reply, pending>>
    /\ UNCHANGED regvars
    /\ UNCHANGED pmobs

CreateChannel ==
    /\ Len(channels) < MaxChannels
    /\ channels' = create_channel(channels)
    /\ ObserveCap("create_channel")
    /\ UNCHANGED <<next_capability_id, cap_issued, reply, pending>>
    /\ UNCHANGED regvars
    /\ UNCHANGED pmobs

\* a client calls request on the client half of channel ch: the future is
\* created and nothing of its body has run; the thread that is current at the
\* call is noted as the issuer
CallRequest(ch, req) ==
    /\ may_request(pending, ch)
    /\ pending' = Append(pending, [ch |-> ch, req |-> req, issuer |-> current_thread])
    /\ last' = [op |-> "request", arg |-> ch, res |-> "Pending", trace |-> <<>>]
    /\ UNCHANGED <<next_capability_id, channels, cap_issued, reply>>
    /\ UNCHANGED regvars
    /\ UNCHANGED pmobs

ChannelRequest ==
    \E ch \in 1..Len(channels), req \in Requests : CallRequest(ch, req)

\* the current thread asks to open a file, as example_file_access does
ThreadRequest ==
    /\ current_thread # None
    /\ \E ch \in 1..Len(channels) :
           CallRequest(ch, [kind |-> "FileSystem", op |-> "Open", size |-> 0])

\* a request future is polled: the body of request runs to its end and the
\* future is dropped, which releases the client half
AwaitRequest ==
    \E k \in 1..Len(pending) :
        /\ reply' = request(pending[k].req)
        /\ pending' = drop_at(pending, k)
        /\ last' = [op |-> "request.await", arg |-> pending[k].ch, res |-> "Err",
                    trace |-> <<>>]
        /\ UNCHANGED <<next_capability_id, channels, cap_issued>>
        /\ UNCHANGED regvars
        /\ UNCHANGED pmobs

\* the service half handles one request
HandleRequest ==
    \E req \in Requests :
        /\ channels # <<>>
        /\ reply' = handle_request(req)
        /\ ObserveCap("handle_request")
        /\ UNCHANGED <<next_capability_id, channels, cap_issued, pending>>
        /\ UNCHANGED regvars
        /\ UNCHANGED pmobs

CapNext ==
    \/ NextCapabilityId
    \/ CreateChannel
    \/ ChannelRequest
    \/ AwaitRequest
    \/ HandleRequest

\* the capability system and its channels on their own
SpecCap == Init /\ [][CapNext]_vars

\* the manager is followed while its tables stay within SysThreads / SysQueue
SysSmall ==
    /\ Len(threads) <= SysThreads
    /\ Len(ready_queue) <= SysQueue

SysNext ==
    \/ CreateProcess /\ SysSmall'
    \/ CreateThread /\ SysSmall'
    \/ TerminateThread
    \/ TerminateProcess
    \/ ScheduleNext
    \/ YieldThread /\ SysSmall'
    \/ NextCapabilityId

\* the process manager interleaved with the issue of capability ids
SpecSys == Init /\ [][SysNext]_vars

\* the manager is followed while its tables stay within LiveThreads / LiveQueue
LiveSmall ==
    /\ Len(threads) <= LiveThreads
    /\ Len(ready_queue) <= LiveQueue

\* a scheduling call: schedule_next, or yield_thread while the queue has room
Dispatch ==
    \/ ScheduleNext
    \/ YieldThread /\ LiveSmall'

LiveNext ==
    \/ CreateProcess /\ LiveSmall'
    \/ CreateThread /\ LiveSmall'
    \/ TerminateThread
    \/ TerminateProcess
    \/ ScheduleNext
    \/ YieldThread /\ LiveSmall'

\* the process manager whose scheduling calls never cease: whatever else is
\* called, schedule_next or yield_thread is called again and again
SpecLive == Init /\ [][LiveNext]_vars /\ WF_vars(Dispatch)

\* ------------------------------------------------- registry transitions

CapIds == 1..(MaxRegistry + 1)  \* arguments tried, one id beyond those issued

\* the capability id was issued and, at time t, has been revoked or its
\* expires_at has passed
lapsed(reg, t, id) ==
    LET i == find_capability(reg, id)
    IN  /\ i # 0
        /\ \/ reg[i].revoked
           \/ reg[i].expires_at # None /\ reg[i].expires_at < t

\* the capabilities found revoked or expired after the step are noted
NoteLapsed ==
    lapsed_seen' = lapsed_seen \cup {id \in CapIds : lapsed(registry', now', id)}

\* the grants a trusted service makes, all on the directory /a
GrantResources == { <<"a">> }
GrantPermissions == { {"Read", "Delegate"}, {"Read", "Write"} }
\* the permission sets asked for in a delegation
AskedPermissions == { {"Read"}, {"Write"}, {"Read", "Delegate"} }

IssueCapability ==
    \E resource \in GrantResources, permissions \in GrantPermissions, ttl \in {None, 1} :
        /\ Len(registry) < MaxRegistry
        /\ \E r \in {issue(registry, next_capability_id, now, resource, permissions, ttl)} :
               /\ registry' = r.reg
               /\ next_capability_id' = r.counter
               /\ cap_issued' = Append(cap_issued, r.id)
               /\ last' = [op |-> "issue", arg |-> 0, res |-> r.res, trace |-> <<>>]
        /\ UNCHANGED <<channels, reply, pending, now>>
        /\ NoteLapsed
        /\ UNCHANGED pmobs

RevokeCapability ==
    \E id \in CapIds :
        /\ registry' = revoke(registry, id)
        /\ last' = [op |-> "revoke", arg |-> 0, res |-> "Ok", trace |-> <<>>]
        /\ UNCHANGED <<next_capability_id, channels, cap_issued, reply, pending, now>>
        /\ NoteLapsed
        /\ UNCHANGED pmobs

CheckCapability ==
    \E id \in CapIds, resource \in Resources, permission \in Permissions :
        /\ last' = [op |-> "check", arg |-> 0,
                    res |-> IF check(registry, now, id, resource, permission)
                            THEN "true" ELSE "false",
                    trace |-> <<>>]
        /\ UNCHANGED capvars
        /\ UNCHANGED pmobs

DelegateCapability ==
    \E parent \in CapIds, permissions \in AskedPermissions,
       sub_resource \in Resources, ttl \in {None, 2} :
        \E r \in {delegate(registry, next_capability_id, now,
                            parent, permissions, sub_resource, ttl)} :
            /\ r.res = "Ok" => Len(registry) < MaxRegistry
            /\ registry' = r.reg
            /\ next_capability_id' = r.counter
            /\ cap_issued' = IF r.res = "Ok" THEN Append(cap_issued, r.id) ELSE cap_issued
            /\ last' = [op |-> "delegate", arg |-> 0, res |-> r.res, trace |-> <<>>]
            /\ UNCHANGED <<channels, reply, pending, now>>
            /\ NoteLapsed
            /\ UNCHANGED pmobs

\* time passes
Tick ==
    /\ now < MaxClock
    /\ now' = now + 1
    /\ ObserveCap("tick")
    /\ UNCHANGED <<next_capability_id, channels, cap_issued, reply, pending, registry>>
    /\ NoteLapsed
    /\ UNCHANGED pmobs

RegNext ==
    \/ IssueCapability
    \/ RevokeCapability
    \/ CheckCapability
    \/ DelegateCapability
    \/ Tick

\* the capability registry on its own
SpecReg == Init /\ [][RegNext]_vars

\* the manager is followed while its tables stay within ChanThreads / ChanQueue
ChanSmall ==
    /\ Len(threads) <= ChanThreads
    /\ Len(ready_queue) <= ChanQueue

ChanNext ==
    \/ CreateProcess /\ ChanSmall'
    \/ CreateThread /\ ChanSmall'
    \/ TerminateThread
    \/ TerminateProcess
    \/ ScheduleNext
    \/ YieldThread /\ ChanSmall'
    \/ CreateChannel
    \/ ThreadRequest
    \/ AwaitRequest

\* the threads of the process manager making requests on capability channels
SpecChan == Init /\ [][ChanNext]_vars

\* ================================================================= claims

\* ids of the threads whose recorded state is Ready / Terminated
ReadyTids == {threads[i].tid : i \in {k \in 1..Len(threads) : threads[k].state = "Ready"}}
TerminatedTids ==
    {threads[i].tid : i \in {k \in 1..Len(threads) : threads[k].state = "Terminated"}}
QueueTids == {ready_queue[i] : i \in 1..Len(ready_queue)}
Min(a, b) == IF a < b THEN a ELSE b

\* the calls logged from position 2 on are all yield_thread calls
YieldsAfterFirst ==
    \A k \in 2..Len(sched_log) : sched_log[k].op = "yield_thread"

\* C1: in every reachable state the ready queue contains each thread id at
\* most once.
C1_QueueHoldsEachTidOnce ==
    \A i, j \in 1..Len(ready_queue) : i # j => ready_queue[i] # ready_queue[j]

\* C2: over consecutive yield_thread calls on a fixed set of N >= 2 Ready
\* threads, a thread selected by one yield is not selected again before every
\* other Ready thread has been selected once; in particular two consecutive
\* yield_thread calls never select the same thread.
C2_StrictRoundRobinUnderYields ==
    Cardinality(ReadyTids) >= 2 =>
        \A i, j \in 1..Len(sched_log) :
            ( /\ i < j
              /\ \A k \in i..j : sched_log[k].op = "yield_thread"
              /\ sched_log[i].ret # None
              /\ sched_log[i].ret = sched_log[j].ret )
            => \A t \in ReadyTids \ {sched_log[i].ret} :
                   \E k \in (i+1)..(j-1) : sched_log[k].ret = t

\* C3: from N Ready threads and no current thread, with every selected thread
\* yielding once, the first N selections are N different Ready threads: each
\* is scheduled once before any is scheduled a second time.
C3_OneRoundEachThreadOnce ==
    (log_idle /\ YieldsAfterFirst) =>
        \A i \in 1..Min(Len(sched_log), Cardinality(ReadyTids)) :
            /\ sched_log[i].ret \in ReadyTids
            /\ \A j \in 1..(i-1) : sched_log[j].ret # sched_log[i].ret

\* C3 witness: N >= 2 Ready threads were each scheduled once from idle, each
\* yielded once, and the selection after the round is the first thread again
C3_Witness ==
    /\ log_idle /\ YieldsAfterFirst
    /\ Cardinality(ReadyTids) >= 2
    /\ Len(sched_log) = Cardinality(ReadyTids) + 1
    /\ sched_log[Len(sched_log)].ret = sched_log[1].ret

\* C4: whenever schedule_next returns Some(tid), also when it is called from
\* terminate_thread, tid is in the thread table and its recorded state at the
\* moment of selection is Ready.
C4_SelectedThreadIsReady ==
    \A k \in 1..Len(last.trace) :
        last.trace[k].ret # None => last.trace[k].state = "Ready"

\* C4 witness: a schedule_next call made after a termination returned a thread
C4_Witness ==
    /\ last.op = "schedule_next"
    /\ last.trace[1].ret # None
    /\ TerminatedTids # {}

\* C5: a thread that terminate_thread has terminated is never returned by a
\* later schedule_next call and never is the current thread again.
C5_TerminatedNeverScheduled ==
    [][ /\ \A t \in TerminatedTids :
              /\ current_thread' # t
              /\ \A k \in 1..Len(last'.trace) : last'.trace[k].ret # t
        /\ current_thread' \notin TerminatedTids' ]_vars

\* C5 witness: the current thread was terminated and scheduling calls went on
\* selecting other threads
C5_Witness ==
    /\ last.op \in {"schedule_next", "yield_thread"}
    /\ last.trace[1].ret # None
    /\ TerminatedTids # {}
    /\ Len(sched_log) >= 2

\* C6: right after terminate_process(pid) returns Ok, every thread owned by
\* pid is Terminated, none of them is in the ready queue and the current
\* thread is none of them.
C6_ProcessThreadsAllTerminated ==
    (last.op = "terminate_process" /\ last.res = "Ok") =>
        \A i \in 1..Len(threads) :
            threads[i].pid = last.arg =>
                /\ threads[i].state = "Terminated"
                /\ threads[i].tid \notin QueueTids
                /\ current_thread # threads[i].tid

\* C6 witness: the terminated process owned several threads, one of them the
\* current thread (schedule_next ran during the call), and another process
\* still has a Ready thread
C6_Witness ==
    /\ last.op = "terminate_process" /\ last.res = "Ok"
    /\ Cardinality({i \in 1..Len(threads) : threads[i].pid = last.arg}) >= 2
    /\ Len(last.trace) >= 1
    /\ ReadyTids # {}

\* C7: create_thread on a pid that is not in the process table returns
\* ProcessNotFound and changes neither table, nor the ready queue, the
\* current thread or the next-thread-id counter.
C7_UnknownPidChangesNothing ==
    [][ (last'.op = "create_thread" /\ find_process(processes, last'.arg) = 0) =>
            /\ last'.res = "ProcessNotFound"
            /\ UNCHANGED <<processes, threads, ready_queue, current_thread, next_tid>>
      ]_vars

\* C7 witness: create_thread failed on an unknown pid while threads existed
C7_Witness ==
    /\ last.op = "create_thread" /\ last.res = "ProcessNotFound"
    /\ ready_queue # <<>>
    /\ current_thread # None

\* C8: create_thread on a process that terminate_process has put in state
\* Terminated fails, creates no thread and enqueues nothing.
C8_NoThreadInTerminatedProcess ==
    [][ ( /\ last'.op = "create_thread"
          /\ find_process(processes, last'.arg) # 0
          /\ processes[find_process(processes, last'.arg)].state = "Terminated" ) =>
            /\ last'.res # "Ok"
            /\ UNCHANGED <<threads, ready_queue>>
      ]_vars

\* C9: in every reachable state every thread owned by a Terminated process is
\* Terminated.
C9_TerminatedProcessOwnsNoLiveThread ==
    \A p \in 1..Len(processes) :
        processes[p].state = "Terminated" =>
            \A i \in 1..Len(threads) :
                threads[i].pid = processes[p].pid => threads[i].state = "Terminated"

\* C10: after terminate_thread(tid) returns Ok for the current thread, the
\* current thread is not tid; if a Ready thread remains, the current thread is
\* the Ready thread at the front of the remaining ready queue; it is None only
\* when no Ready thread remains.
C10_CurrentReplacedAfterTerminate ==
    [][ ( /\ last'.op = "terminate_thread" /\ last'.res = "Ok"
          /\ current_thread = last'.arg ) =>
            LET Other(t) == t # last'.arg
                remaining == SelectSeq(ready_queue, Other)
            IN  /\ current_thread' # last'.arg
                /\ ReadyTids' # {} =>
                       /\ remaining # <<>>
                       /\ current_thread' = Head(remaining)
                       /\ current_thread' \in ReadyTids'
                /\ current_thread' = None => ReadyTids' = {}
      ]_vars

\* C10 witness: the current thread was terminated while another thread was
\* Ready, and that thread is now current
C10_Witness ==
    /\ last.op = "terminate_thread" /\ last.res = "Ok"
    /\ Len(last.trace) = 1
    /\ last.trace[1].ret # None
    /\ current_thread = last.trace[1].ret

\* C11: in every reachable state the current thread is None or a thread of
\* the thread table that is not Terminated.
C11_CurrentThreadIsLive ==
    \/ current_thread = None
    \/ thread_state(threads, current_thread) \notin {"Absent", "Terminated"}

\* C11 witness: the current thread was terminated and another thread took over
C11_Witness ==
    /\ last.op = "terminate_thread" /\ last.res = "Ok"
    /\ Len(last.trace) = 1
    /\ current_thread # None
    /\ current_thread # last.arg

\* C12: for every process, its thread list holds exactly the ids of the
\* threads of the thread table that it owns, each once (so the id a
\* successful create_thread returned is in the list of its process).
C12_ThreadListMatchesTable ==
    \A p \in 1..Len(processes) :
        LET list == processes[p].threads
        IN  /\ \A i, j \in 1..Len(list) : i # j => list[i] # list[j]
            /\ {list[i] : i \in 1..Len(list)}
                 = {threads[i].tid : i \in {k \in 1..Len(threads) :
                                              threads[k].pid = processes[p].pid}}

\* ids of the threads whose recorded state is Running
RunningTids ==
    {threads[i].tid : i \in {k \in 1..Len(threads) : threads[k].state = "Running"}}

\* C13: a thread that schedule_next returned is the current thread and is
\* recorded Running; whenever there is a current thread it is the one and only
\* Running thread.
C13_CurrentIsTheRunningThread ==
    /\ (last.op = "schedule_next" /\ last.trace[1].ret # None) =>
           /\ current_thread = last.trace[1].ret
           /\ thread_state(threads, current_thread) = "Running"
    /\ current_thread # None => RunningTids = {current_thread}

\* C14: a process is recorded Running exactly when one of its threads is the
\* current thread.
C14_ProcessRunningIffScheduled ==
    \A p \in 1..Len(processes) :
        processes[p].state = "Running"
            <=> \E i \in 1..Len(threads) :
                    /\ threads[i].pid = processes[p].pid
                    /\ threads[i].tid = current_thread

\* the Ready threads in creation (table) order
ReadySeq ==
    LET IsReady(t) == t.state = "Ready"
        ready == SelectSeq(threads, IsReady)
    IN  [k \in 1..Len(ready) |-> ready[k].tid]

\* C15: with N Ready threads, no current thread and only schedule_next called,
\* the k-th call returns the (((k-1) mod N)+1)-th thread in creation order.
C15_ScheduleNextCycles ==
    ( /\ log_idle
      /\ \A k \in 1..Len(sched_log) : sched_log[k].op = "schedule_next" ) =>
        \A k \in 1..Len(sched_log) :
            sched_log[k].ret =
                IF ReadySeq = <<>> THEN None
                ELSE ReadySeq[((k - 1) % Len(ReadySeq)) + 1]

\* C15 witness: three threads, four schedule_next calls, the fourth returning
\* the first thread again
C15_Witness ==
    /\ log_idle
    /\ \A k \in 1..Len(sched_log) : sched_log[k].op = "schedule_next"
    /\ Len(ReadySeq) = 3
    /\ Len(sched_log) = 4
    /\ sched_log[4].ret = ReadySeq[1]

\* a queue with its front entry moved to the back
FrontToBack(q) == IF q = <<>> THEN <<>> ELSE Append(Tail(q), Head(q))

\* the thread table entries other than those of thread tid keep their state
OtherThreadsKept(tid) ==
    /\ Len(threads') = Len(threads)
    /\ \A i \in 1..Len(threads) : threads[i].tid # tid => threads'[i] = threads[i]

\* C16: terminate_thread(tid) leaves in the ready queue exactly the entries
\* other than tid in their previous order, changes the state of no other
\* thread and, when tid is not the current thread, leaves the current thread
\* unchanged.
C16_TerminateKeepsQueueOrder ==
    [][ (last'.op = "terminate_thread" /\ last'.res = "Ok") =>
            LET Other(t) == t # last'.arg
            IN  /\ ready_queue' = SelectSeq(ready_queue, Other)
                /\ OtherThreadsKept(last'.arg)
                /\ current_thread # last'.arg => current_thread' = current_thread
      ]_vars

\* C16 as amended: the entries other than tid keep their order when tid is not
\* the current thread; when tid is the current thread, the schedule_next that
\* terminate_thread calls moves the front of the remaining queue to the back.
C16_TerminateKeepsOrderUpToRotation ==
    [][ (last'.op = "terminate_thread" /\ last'.res = "Ok") =>
            LET Other(t) == t # last'.arg
                remaining == SelectSeq(ready_queue, Other)
            IN  /\ OtherThreadsKept(last'.arg)
                /\ IF current_thread = last'.arg
                   THEN ready_queue' = FrontToBack(remaining)
                   ELSE /\ ready_queue' = remaining
                        /\ current_thread' = current_thread
      ]_vars

\* C16 witness: the current thread was terminated from a queue that held it
\* and two different other threads
C16_Witness ==
    /\ last.op = "terminate_thread" /\ last.res = "Ok"
    /\ Len(last.trace) = 1
    /\ Len(ready_queue) >= 2
    /\ ready_queue[1] # ready_queue[Len(ready_queue)]

\* C17: terminate_thread on a tid absent from the thread table returns
\* ThreadNotFound, terminate_process on a pid absent from the process table
\* returns ProcessNotFound, and neither changes the tables, the ready queue or
\* the current thread.
C17_LookupFailureChangesNothing ==
    [][ /\ (last'.op = "terminate_thread" /\ find_thread(threads, last'.arg) = 0) =>
              /\ last'.res = "ThreadNotFound"
              /\ UNCHANGED <<processes, threads, ready_queue, current_thread>>
        /\ (last'.op = "terminate_process" /\ find_process(processes, last'.arg) = 0) =>
              /\ last'.res = "ProcessNotFound"
              /\ UNCHANGED <<processes, threads, ready_queue, current_thread>>
      ]_vars

\* C17 witness: terminate_process failed on an unknown pid while a thread was
\* current and others were queued
C17_Witness ==
    /\ last.op = "terminate_process" /\ last.res = "ProcessNotFound"
    /\ current_thread # None
    /\ Len(ready_queue) >= 2

QueueOfOthers(q, thr, pid) ==
    LET NotOwned(t) == thr[find_thread(thr, t)].pid # pid
    IN  SelectSeq(q, NotOwned)

\* terminate_process(pid) leaves the capability system, every capability
\* list, every other process and every thread of another process as they were
OtherProcessesKept(pid) ==
    /\ UNCHANGED <<next_capability_id, channels, cap_issued>>
    /\ Len(processes') = Len(processes)
    /\ \A p \in 1..Len(processes) :
           /\ processes'[p].capabilities = processes[p].capabilities
           /\ processes[p].pid # pid => processes'[p] = processes[p]
    /\ Len(threads') = Len(threads)
    /\ \A i \in 1..Len(threads) : threads[i].pid # pid => threads'[i] = threads[i]

\* C19: terminate_process(pid) changes no capability list and nothing of the
\* capability system, and leaves the threads, the recorded states and the
\* ready-queue order of every other process unchanged.
C19_TerminateProcessFrame ==
    [][ last'.op = "terminate_process" =>
            /\ OtherProcessesKept(last'.arg)
            /\ QueueOfOthers(ready_queue', threads, last'.arg)
                 = QueueOfOthers(ready_queue, threads, last'.arg)
      ]_vars

\* C19 as amended: as C19, but the ready-queue entries of the other processes
\* keep their order only when the current thread did not belong to pid; when
\* it did, the schedule_next that terminate_thread calls moves their front
\* entry to the back.
C19_TerminateProcessFrameUpToRotation ==
    [][ last'.op = "terminate_process" =>
            LET others == QueueOfOthers(ready_queue, threads, last'.arg)
                owned  == current_thread # None
                          /\ threads[find_thread(threads, current_thread)].pid = last'.arg
            IN  /\ OtherProcessesKept(last'.arg)
                /\ QueueOfOthers(ready_queue', threads, last'.arg)
                     = IF owned THEN FrontToBack(others) ELSE others
      ]_vars

\* C19 witness: a process that owned the current thread was terminated after
\* capability ids had been issued, and another process has two queued threads
C19_Witness ==
    /\ last.op = "terminate_process" /\ last.res = "Ok"
    /\ Len(last.trace) >= 1
    /\ cap_issued # <<>>
    /\ Len(ready_queue) >= 2
    /\ ready_queue[1] # ready_queue[Len(ready_queue)]

\* a request whose shape is invalid: Receive with buffer_size = 0
Malformed(req) ==
    req.kind = "Network" /\ req.op = "Receive" /\ req.size = 0

\* C20: a malformed request on a capability channel, such as Network Receive
\* with buffer_size = 0, is answered with InvalidRequest.
C20_MalformedRequestIsInvalid ==
    Malformed(reply.req) => reply.error = "InvalidRequest"

\* C21: a thread that has issued a capability request and awaits the reply is
\* out of the ready queue, in state Blocked, until the response to that
\* request is delivered (or the thread is terminated); nothing else puts it
\* back in the queue.
C21_WaitingThreadIsBlocked ==
    \A i \in 1..Len(pending) :
        LET t == pending[i].issuer
        IN  t # None =>
                \/ thread_state(threads, t) = "Terminated"
                \/ /\ thread_state(threads, t) = "Blocked"
                   /\ t \notin QueueTids

\* position of the oldest request made on channel ch and not yet answered
first_on(pend, ch) ==
    CHOOSE k \in 1..Len(pend) :
        /\ pend[k].ch = ch
        /\ \A j \in 1..(k - 1) : pend[j].ch # ch

C23_LapsedCapabilityIsRejected ==
    \A id \in CapIds :
        id \in lapsed_seen \/ lapsed(registry, now, id)
            => \A resource \in Resources, permission \in Permissions :
                   ~check(registry, now, id, resource, permission)

\* C23 witness: a check has just returned false while one capability is
\* revoked and another, never revoked, is past its expires_at
C23_Witness ==
    /\ last.op = "check" /\ last.res = "false"
    /\ Cardinality(lapsed_seen) = 2
    /\ \E i, j \in 1..Len(registry) :
           /\ registry[i].revoked
           /\ ~registry[j].revoked
           /\ registry[j].expires_at # None
           /\ registry[j].expires_at < now

\* C24: every capability made by delegate carries a subset of its parent's
\* permissions and expires no later than its parent; a delegate call that asks
\* for a permission the parent lacks, or whose parent does not hold Delegate,
\* or whose sub-resource is not within the parent's resource, fails with
\* PermissionDenied and issues nothing.
C24_DelegationNeverWidens ==
    /\ \A i \in 1..Len(registry) :
           registry[i].parent # None =>
               \E p \in {find_capability(registry, registry[i].parent)} :
                   /\ p # 0
                   /\ registry[i].permissions \subseteq registry[p].permissions
                   /\ not_later(registry[i].expires_at, registry[p].expires_at)
    /\ \A parent \in CapIds, permissions \in AskedPermissions,
          sub_resource \in Resources, ttl \in {None, 2} :
           \E p \in {find_capability(registry, parent)} :
               ( /\ p # 0
                 /\ \/ ~(permissions \subseteq registry[p].permissions)
                    \/ "Delegate" \notin registry[p].permissions
                    \/ ~contained(sub_resource, registry[p].resource) )
               => \E r \in {delegate(registry, next_capability_id, now,
                                      parent, permissions, sub_resource, ttl)} :
                      /\ r.res = "PermissionDenied"
                      /\ r.reg = registry
                      /\ r.counter = next_capability_id

\* C24 witness: a delegated capability exists with fewer permissions than its
\* parent and the parent's expiry, and a later delegate call has been refused
C24_Witness ==
    /\ last.op = "delegate" /\ last.res = "PermissionDenied"
    /\ Len(registry) = 2
    /\ registry[2].parent = registry[1].id
    /\ registry[2].permissions # registry[1].permissions
    /\ registry[1].expires_at # None
    /\ registry[2].expires_at = registry[1].expires_at

\* C25: create_process always succeeds and adds exactly one process and one
\* thread: the new process is Ready and lists exactly its initial thread once;
\* that thread is Ready, owned by the new pid and appended at the tail of the
\* ready queue; the entries already queued keep their order and the
\* current-thread pointer is unchanged.
C25_CreateProcessAddsOneReadyPair ==
    \E r \in {create_process(PM)} :
        LET np == Len(processes) + 1
            nt == Len(threads) + 1
        IN  /\ r.res = "Ok"
            /\ Len(r.pm.processes) = np
            /\ SubSeq(r.pm.processes, 1, np - 1) = processes
            /\ Len(r.pm.threads) = nt
            /\ SubSeq(r.pm.threads, 1, nt - 1) = threads
            /\ r.pm.processes[np].pid = r.pid
            /\ \A p \in 1..Len(processes) : processes[p].pid # r.pid
            /\ r.pm.processes[np].state = "Ready"
            /\ r.pm.processes[np].threads = <<r.pm.threads[nt].tid>>
            /\ r.pm.threads[nt].state = "Ready"
            /\ r.pm.threads[nt].pid = r.pid
            /\ \A i \in 1..Len(threads) : threads[i].tid # r.pm.threads[nt].tid
            /\ r.pm.ready_queue = Append(ready_queue, r.pm.threads[nt].tid)
            /\ r.pm.current_thread = current_thread

\* C25 witness: a second process was created while a thread was current and
\* the ready queue already held several entries
C25_Witness ==
    /\ last.op = "create_process" /\ last.res = "Ok"
    /\ Len(processes) = 2
    /\ processes[2].pid = last.arg /\ processes[2].state = "Ready"
    /\ current_thread # None
    /\ Len(ready_queue) >= 3
    /\ ready_queue[Len(ready_queue)] = processes[2].threads[1]

\* C26: in every reachable state the set of thread ids in the ready queue is
\* the set of threads the thread table records as Ready: no Terminated or
\* absent thread is queued and no Ready thread is missing from the queue.
C26_QueueIsTheReadySet ==
    QueueTids = ReadyTids

\* C26 witness: the queue holds an id twice while one thread is Terminated and
\* two are Ready
C26_Witness ==
    /\ TerminatedTids # {}
    /\ Cardinality(ReadyTids) >= 2
    /\ Len(ready_queue) > Cardinality(QueueTids)

\* C27: schedule_next returns None only when no thread is Ready: wherever a
\* Ready thread exists it returns Some, and when it returns None the
\* current-thread pointer is left as it was.
C27_NoneOnlyWithoutReadyThread ==
    \E r \in {schedule_next(PM)} :
        /\ ReadyTids # {} => r.ret # None
        /\ r.ret = None => /\ ReadyTids = {}
                            /\ r.pm.current_thread = current_thread

\* C27 witness: schedule_next selected a thread, which is now current, after
\* another thread had been terminated and while two threads were Ready
C27_Witness ==
    /\ last.op = "schedule_next"
    /\ Len(last.trace) = 1 /\ last.trace[1].ret # None
    /\ last.trace[1].ret = current_thread
    /\ TerminatedTids # {}
    /\ Cardinality(ReadyTids) >= 2

\* C28: no starvation: when schedule_next or yield_thread is called again and
\* again, every thread that is Ready is eventually selected as the current
\* thread unless it is terminated first, whatever threads are created and
\* whatever yields are interleaved.
C28_NoStarvation ==
    \A t \in Tids :
        (t \in ReadyTids) ~> (current_thread = t \/ t \in TerminatedTids)

\* C28 witness: two threads are Ready, the one created last has been selected
\* by a yield, and the queue holds an id twice
C28_Witness ==
    /\ Cardinality(ReadyTids) = 2
    /\ last.op = "yield_thread"
    /\ current_thread = 2
    /\ Len(ready_queue) > Cardinality(QueueTids)
\* the tables, the queue and the current-thread pointer of two managers agree
SameManager(a, b) ==
    /\ a.processes = b.processes
    /\ a.threads = b.threads
    /\ a.ready_queue = b.ready_queue
    /\ a.current_thread = b.current_thread

====
